---- MODULE Spec2Model ----
(***************************************************************************)
(* A model of the MIBiG sideloader of mibig-html: the reuse decision       *)
(* (MibigAnnotations.to_json / from_json), the annotation merge            *)
(* (mibig_loader), the command line entry point (main) and the reference   *)
(* resolver with its PubMed cache.                                         *)
(*                                                                         *)
(* Identifiers (locus tags, protein ids, gene names, PubMed ids) are       *)
(* modelled as small integers so that "sorted" has a meaning; Python's     *)
(* None is the value None below.                                           *)
(***************************************************************************)
EXTENDS Integers, Sequences, FiniteSets, TLC

(* ------------------------------ bounds --------------------------------- *)
\* length of the record's sequence, len(record.seq)
SeqLen == 3
\* annotated locus coordinates (1-based) range over 1..MaxCoord
MaxCoord == 4
\* SpecMerge: total number of CDS features, gene annotations, extra genes
\* and biosynthesis gene references of one input
MaxItems == 3
\* Spec: number of changes made to the inputs between the two runs
MaxEdits == 2

(* --------------------------- Python values ----------------------------- *)
\* Python's None, for optional integers and optional identifiers
None == -100

\* bool(x) of an Optional[int] / Optional[str]: None and 0 are falsy
Truthy(x) == x # None /\ x # 0

\* x or y
Or(x, y) == IF Truthy(x) THEN x ELSE y

\* the gene identifiers of the inputs (locus tags, protein ids, gene names)
Names == {1, 2}
NameOpt == Names \cup {None}
Coords == 1..MaxCoord
CoordOpt == Coords \cup {None}
Accessions == {"ACC1", "ACC2"}
RecordIds == {"rec1", "rec2"}
\* annot.product: None or a product name
AnnotProducts == {"None", "p1", "p2"}

RECURSIVE SortedSeq(_)
\* sorted(S) of a set of identifiers
SortedSeq(S) ==
    IF S = {} THEN <<>>
    ELSE LET m == CHOOSE x \in S : \A y \in S : x <= y
         IN <<m>> \o SortedSeq(S \ {m})

Range(s) == {s[i] : i \in 1..Len(s)}

(* ---------------------------- locations -------------------------------- *)
\* Bio.SeqFeature.FeatureLocation(start, end): refuses end < start
FeatureLocation(start, end) ==
    [valid |-> start <= end, start |-> start, end |-> end]

\* a variant of loader_loci_region that forgets the conversion of the 1-based
\* begin
loader_loci_region_onebased(loci, seqlen) ==
    FeatureLocation(IF Truthy(loci.start) THEN loci.start ELSE 0,
                    Or(loci.end, seqlen))

\* the cluster subregion computed by mibig_loader
loader_loci_region(loci, seqlen) ==
    FeatureLocation(IF Truthy(loci.start) THEN loci.start - 1 ELSE 0,
                    Or(loci.end, seqlen))

\* exons of an extra gene, 1-based inclusive -> 0-based half open parts;
\* CompoundLocation(exons) if more than one, else exons[0]: a location is
\* modelled as the sequence of its parts in both cases
gene_location(gene) ==
    [i \in 1..Len(gene.location) |->
        [start |-> gene.location[i].start - 1, end |-> gene.location[i].end]]

\* location_contains_other(outer, inner): every part of inner within outer
location_contains_other(outer, inner) ==
    \A i \in 1..Len(inner) :
        outer.start <= inner[i].start /\ inner[i].end <= outer.end

(* ------------------------------ record --------------------------------- *)
LocStart(location) == location[1].start
LocEnd(location) == location[Len(location)].end

\* features of a record are kept ordered by location
LocBefore(a, b) ==
    \/ LocStart(a) < LocStart(b)
    \/ LocStart(a) = LocStart(b) /\ LocEnd(a) < LocEnd(b)

\* CDSFeature.get_name(): the first of locus tag, protein id, gene name
get_name(cds) == Or(cds.locus_tag, Or(cds.protein_id, cds.gene))

\* record.add_cds_feature(cds, auto_deduplicate=False): inserted in location
\* order, no deduplication against the features already there
add_cds_feature(cds_features, cds) ==
    LET n == Cardinality({i \in 1..Len(cds_features) :
                            LocBefore(cds_features[i].location, cds.location)})
    IN SubSeq(cds_features, 1, n) \o <<cds>>
         \o SubSeq(cds_features, n + 1, Len(cds_features))

\* CDSFeature(location=location, locus_tag=gene.id, translation=...)
CDSFeature(location, locus_tag) ==
    [locus_tag |-> locus_tag, protein_id |-> None, gene |-> None,
     location |-> location, product |-> ""]

\* record.add_alteration(f"{name} was added")
add_alteration(alterations, name) ==
    Append(alterations, [note |-> "was added", name |-> name])

\* a variant of add_extra_gene that inserts the feature before it checks
\* the location
add_extra_gene_insert_first(st, gene, area) ==
    IF st.raised THEN st
    ELSE IF ~(Truthy(gene.id) /\ gene.location # <<>>) THEN st
    ELSE LET cds == CDSFeature(gene_location(gene), gene.id)
             put == [st EXCEPT
                       !.record.cds = add_cds_feature(@, cds),
                       !.record.alterations = add_alteration(@, get_name(cds))]
         IN IF ~location_contains_other(area, gene_location(gene))
            THEN [put EXCEPT !.raised = TRUE, !.gene = gene.id]
            ELSE put

(* ---------------------- mibig_loader: extra genes ---------------------- *)
\* one iteration of the loop over data.cluster.genes.extra_genes; st is
\* [raised, gene, record]; nothing happens once an iteration has raised
add_extra_gene(st, gene, area) ==
    IF st.raised THEN st
    ELSE IF ~(Truthy(gene.id) /\ gene.location # <<>>) THEN st
    ELSE IF ~location_contains_other(area, gene_location(gene))
         THEN [st EXCEPT !.raised = TRUE, !.gene = gene.id]
    ELSE LET cds == CDSFeature(gene_location(gene), gene.id)
         IN [st EXCEPT
               !.record.cds = add_cds_feature(@, cds),
               !.record.alterations = add_alteration(@, get_name(cds))]

RECURSIVE add_extra_genes(_, _, _, _)
\* the loop over extra_genes[i..]
add_extra_genes(st, extra_genes, i, area) ==
    IF i > Len(extra_genes) THEN st
    ELSE add_extra_genes(add_extra_gene(st, extra_genes[i], area),
                         extra_genes, i + 1, area)

(* ---------------------- mibig_loader: re-annotation -------------------- *)
\* the if/elif chain deciding whether annot applies to cds_feature
annot_matches(cds, annot) ==
    \/ Truthy(cds.locus_tag) /\ annot.id = cds.locus_tag
    \/ Truthy(cds.protein_id) /\ annot.id = cds.protein_id
    \/ Truthy(cds.gene) /\ annot.name = cds.gene

RECURSIVE reannotate_product_break(_, _, _, _)
\* a variant of reannotate_product that leaves the loop at the first
\* matching annotation
reannotate_product_break(cds, annotations, i, product) ==
    IF i > Len(annotations) THEN product
    ELSE IF annot_matches(cds, annotations[i])
         THEN IF annotations[i].product # "None"
              THEN annotations[i].product ELSE product
    ELSE reannotate_product_break(cds, annotations, i + 1, product)

RECURSIVE reannotate_product(_, _, _, _)
\* the inner loop over the gene annotations for one cds_feature: every
\* matching annotation that has a product assigns it, in list order
reannotate_product(cds, annotations, i, product) ==
    IF i > Len(annotations) THEN product
    ELSE reannotate_product(cds, annotations, i + 1,
            IF annot_matches(cds, annotations[i])
               /\ annotations[i].product # "None"
            THEN annotations[i].product ELSE product)

\* record.get_cds_features_within_location(area.location)
within_location(cds, area) == location_contains_other(area, cds.location)

\* the loop over the CDS features within the subregion
reannotate(cds_features, annotations, area) ==
    [i \in 1..Len(cds_features) |->
        IF within_location(cds_features[i], area)
        THEN [cds_features[i] EXCEPT
                !.product = reannotate_product(cds_features[i], annotations,
                                               1, cds_features[i].product)]
        ELSE cds_features[i]]

(* -------------------- mibig_loader: referential check ------------------ *)
\* a variant of existing_names that forgets the gene names
existing_names_no_gene(cds_features) ==
    UNION {{cds_features[i].locus_tag, cds_features[i].protein_id} \ {None} :
             i \in 1..Len(cds_features)}

\* locus tag, protein id and gene name of every CDS of the record
existing_names(cds_features) ==
    UNION {{cds_features[i].locus_tag, cds_features[i].protein_id,
            cds_features[i].gene} \ {None} : i \in 1..Len(cds_features)}

\* gene ids of the gene annotations and of the biosynthesis description
referenced_names(data) ==
    {data.annotations[i].id : i \in 1..Len(data.annotations)}
        \cup data.nrp \cup data.polyketide \cup data.saccharide
        \cup data.compounds

(* ----------------------------- mibig_loader ---------------------------- *)
NoArea == [valid |-> FALSE, start |-> 0, end |-> 0]

\* the outcome of a call: what was raised or returned, and the record as
\* the call left it
Outcome(status, record, area, gene, missing, accession) ==
    [status |-> status, record |-> record, area |-> area, gene |-> gene,
     missing |-> missing, accession |-> accession]

mibig_loader(data, record) ==
    LET area == loader_loci_region(data.loci, record.seqlen)
        added == add_extra_genes([raised |-> FALSE, gene |-> None,
                                  record |-> record],
                                 data.extra_genes, 1, area)
        tagged == [added.record EXCEPT
                     !.cds = reannotate(@, data.annotations, area)]
        missing == referenced_names(data) \ existing_names(tagged.cds)
    IN  IF ~area.valid
        THEN Outcome("ValueError:location", record, NoArea, None, <<>>, "")
        ELSE IF added.raised
        THEN Outcome("ValueError:outside", added.record, NoArea, added.gene,
                     <<>>, "")
        ELSE IF missing # {}
        THEN Outcome("ValueError:missing", tagged, NoArea, None,
                     SortedSeq(missing), data.mibig_accession)
        ELSE Outcome("ok", tagged, area, None, <<>>, "")

(* ------------------------- reuse: to_json / from_json ------------------ *)
\* MibigAnnotations(record_id, area, data, ...): the annotation result
MibigAnnotations(record_id, area, data) ==
    [record_id |-> record_id, area |-> area, data |-> data]

\* an annotation document with nothing in it
NoData ==
    [mibig_accession |-> "", loci |-> [accession |-> "", start |-> None,
                                       end |-> None],
     annotations |-> <<>>, extra_genes |-> <<>>, to_delete |-> <<>>,
     nrp |-> {}, polyketide |-> {}, saccharide |-> {}, compounds |-> {}]

NoResult == MibigAnnotations("", NoArea, NoData)

\* a variant of to_json that writes 0 for an absent coordinate
to_json_zero_sentinel(self) ==
    [record_id |-> self.record_id,
     genbank_accession |-> self.data.loci.accession,
     coords |-> <<Or(self.data.loci.start, 0), Or(self.data.loci.end, 0)>>,
     gene_annotations |-> self.data.annotations,
     extra_genes |-> self.data.extra_genes]

\* MibigAnnotations.to_json: the minimal snapshot persisted for the reuse check
to_json(self) ==
    [record_id |-> self.record_id,
     genbank_accession |-> self.data.loci.accession,
     coords |-> <<Or(self.data.loci.start, -1), Or(self.data.loci.end, -1)>>,
     gene_annotations |-> self.data.annotations,
     extra_genes |-> self.data.extra_genes]

NoPrev == to_json(NoResult)

\* a variant of reuse_mismatch without the check of the extra genes
reuse_mismatch_no_extra(prev, record, data) ==
    IF data.loci.accession # prev.genbank_accession
    THEN "Previous result's genbank_accession is not the same as the new one"
    ELSE IF record.id # prev.record_id
    THEN "Previous result's record_id is not the same as the new one"
    ELSE IF Or(data.loci.start, -1) # prev.coords[1]
            \/ Or(data.loci.end, -1) # prev.coords[2]
    THEN "Previous result's start/end coordinate is not the same as the new one"
    ELSE IF Len(data.annotations) # Len(prev.gene_annotations)
    THEN "Gene annotations have changed"
    ELSE ""

\* the if/elif chain of from_json: the debug message of the first check
\* that fails, "" when every check passes (can_reuse stays True)
reuse_mismatch(prev, record, data) ==
    IF data.loci.accession # prev.genbank_accession
    THEN "Previous result's genbank_accession is not the same as the new one"
    ELSE IF record.id # prev.record_id
    THEN "Previous result's record_id is not the same as the new one"
    ELSE IF Or(data.loci.start, -1) # prev.coords[1]
            \/ Or(data.loci.end, -1) # prev.coords[2]
    THEN "Previous result's start/end coordinate is not the same as the new one"
    ELSE IF Len(data.annotations) # Len(prev.gene_annotations)
    THEN "Gene annotations have changed"
    ELSE IF Len(data.extra_genes) # Len(prev.extra_genes)
    THEN "Additional genes have changed"
    ELSE ""

\* the cluster subregion computed by from_json when it accepts
reuse_loci_region(loci, seqlen) ==
    FeatureLocation(IF Truthy(loci.start) THEN loci.start - 1 ELSE 0,
                    Or(loci.end, seqlen))

LogEntry(level, message) == [level |-> level, message |-> message]

\* what a call of the pipeline leaves behind: the exception raised ("ok" when
\* none), the result returned, the record and the messages logged
Call(status, result, record, log, detail) ==
    [status |-> status, result |-> result, record |-> record, log |-> log,
     detail |-> detail]

\* what an exception carries: the offending gene, or the missing identifiers
\* and the accession
Detail(gene, missing, accession) ==
    [gene |-> gene, missing |-> missing, accession |-> accession]

NoDetail == Detail(None, <<>>, "")

\* mibig_loader seen as a call of the pipeline
load_call(data, record) ==
    LET out == mibig_loader(data, record)
    IN  Call(out.status,
             IF out.status = "ok"
             THEN MibigAnnotations(record.id, out.area, data) ELSE NoResult,
             out.record, <<>>, Detail(out.gene, out.missing, out.accession))

\* a variant of accept_reuse that merges the annotation into the record
\* again, as a fresh run does
accept_reuse_merging(record, data) == load_call(data, record)

\* the can_reuse branch of from_json: the subregion is computed and the
\* result is built; the record is only read
accept_reuse(record, data) ==
    LET area == reuse_loci_region(data.loci, record.seqlen)
    IN  IF area.valid
        THEN Call("ok", MibigAnnotations(record.id, area, data), record, <<>>,
                  NoDetail)
        ELSE Call("ValueError:location", NoResult, record, <<>>, NoDetail)

\* MibigAnnotations.from_json(prev, record, annotations_file, ...)
from_json(prev, record, data) ==
    LET mismatch == reuse_mismatch(prev, record, data)
    IN  IF mismatch = ""
        THEN accept_reuse(record, data)
        ELSE Call("AntismashInputError", NoResult, record,
                  <<LogEntry("debug", mismatch),
                    LogEntry("error", "Can't reuse MIBiG annotation.")>>,
                  NoDetail)

(* ------------------------------- main ---------------------------------- *)
\* mibig_html.run_mibig(sequence, options): regenerates the previous result
\* with from_json when results are reused, runs mibig_loader otherwise; an
\* exception of either propagates to main
run_mibig(reuse, prev, record, data) ==
    IF reuse THEN from_json(prev, record, data) ELSE load_call(data, record)

\* str(err) of the AntismashInputError raised by from_json
ErrorMessage ==
    "Genbank record or gene annotations are updated, can't reuse result"

\* a variant of main that logs the input error and returns 0
main_exit_zero(reuse, prev, record, data) ==
    LET call == run_mibig(reuse, prev, record, data)
    IN  IF call.status = "AntismashInputError"
        THEN [call |-> [call EXCEPT
                          !.log = Append(@, LogEntry("error", ErrorMessage))],
              exit |-> 0]
        ELSE IF call.status = "ok"
        THEN [call |-> call, exit |-> 0]
        ELSE [call |-> call, exit |-> None]

\* main: the try/except around run_mibig and the exit code; exit is None when
\* an exception other than AntismashInputError leaves main
main(reuse, prev, record, data) ==
    LET call == run_mibig(reuse, prev, record, data)
    IN  IF call.status = "AntismashInputError"
        THEN [call |-> [call EXCEPT
                          !.log = Append(@, LogEntry("error", ErrorMessage))],
              exit |-> 1]
        ELSE IF call.status = "ok"
        THEN [call |-> call, exit |-> 0]
        ELSE [call |-> call, exit |-> None]

(* ------------------------------ inputs --------------------------------- *)
\* exons of extra genes, 1-based inclusive
Exons == {[start |-> s, end |-> s + 1] : s \in 1..2}

\* gene.location.exons: absent, one exon, or two one-base exons
GeneLocations ==
    {<<>>} \cup {<<e>> : e \in Exons}
        \cup {<<[start |-> s, end |-> s], [start |-> s + 2, end |-> s + 2]>> :
                s \in 1..1}

ExtraGenes == [id : NameOpt, location : GeneLocations]

Annotations == [id : Names, name : NameOpt, product : AnnotProducts]

\* a CDS of the record as parsed: at least one of its three names is set
CdsLocations == {<<[start |-> s, end |-> s + 2]>> : s \in 0..1}

CdsFeatures ==
    {c \in [locus_tag : NameOpt, protein_id : NameOpt, gene : NameOpt,
            location : CdsLocations, product : {"orig"}] :
        get_name(c) # None}

Record(id, cds_features) ==
    [id |-> id, seqlen |-> SeqLen, cds |-> cds_features, alterations |-> <<>>]

Snapshot(accession, start, end, annotations, extra_genes, to_delete, refs) ==
    [mibig_accession |-> "BGC1",
     loci |-> [accession |-> accession, start |-> start, end |-> end],
     annotations |-> annotations, extra_genes |-> extra_genes,
     to_delete |-> to_delete,
     nrp |-> refs[1], polyketide |-> refs[2], saccharide |-> refs[3],
     compounds |-> refs[4]]

\* data.cluster.genes.to_delete with n entries
ToDelete(n) == [i \in 1..n |-> i]

NoRefs == <<{}, {}, {}, {}>>

(* ------------------------- PubmedCache / DoiCache ---------------------- *)
\* PubmedEntry(title, authors, year, journal, pmid)
PubmedEntry(title, authors, year, journal, pmid) ==
    [title |-> title, authors |-> authors, year |-> year,
     journal |-> journal, pmid |-> pmid]

\* PubmedEntry.info: first author, journal, year and identifier
info(entry) == <<entry.authors[1], entry.journal, entry.year, entry.pmid>>

\* a variant of add that keeps nothing but the entry it adds
add_alone(mappings, title, authors, year, journal, pmid) ==
    [k \in {pmid} |-> PubmedEntry(title, authors, year, journal, pmid)]

\* PubmedCache.add: self.mappings[pmid] = PubmedEntry(...)
add(mappings, title, authors, year, journal, pmid) ==
    [k \in DOMAIN mappings \cup {pmid} |->
        IF k = pmid THEN PubmedEntry(title, authors, year, journal, pmid)
        ELSE mappings[k]]

\* a variant of get_missing that forgets to subtract the cached keys
get_missing_all(mappings, want) == SortedSeq(Range(want))

\* a variant of get_missing that keeps the wanted list as it is given but
\* for the cached keys
get_missing_as_given(mappings, want) ==
    SelectSeq(want, LAMBDA x : x \notin DOMAIN mappings)

\* PubmedCache.get_missing: sorted(list(want - have))
get_missing(mappings, want) == SortedSeq(Range(want) \ DOMAIN mappings)

\* a variant of get that makes up an empty entry for a key it does not have
get_placeholder(mappings, pmid) ==
    [found |-> TRUE,
     entry |-> IF pmid \in DOMAIN mappings THEN mappings[pmid]
               ELSE PubmedEntry(0, <<"">>, "", "", pmid)]

\* PubmedCache.get: self.mappings[pmid], a KeyError when pmid is no key
get(mappings, pmid) ==
    IF pmid \in DOMAIN mappings
    THEN [found |-> TRUE, entry |-> mappings[pmid]]
    ELSE [found |-> FALSE, entry |-> PubmedEntry(0, <<>>, "", "", pmid)]

\* a variant of entry_to_json that writes the authors in reverse
entry_to_json_reversed(entry) ==
    [title |-> entry.title,
     authors |-> [i \in 1..Len(entry.authors) |->
                    entry.authors[Len(entry.authors) + 1 - i]],
     year |-> entry.year, journal |-> entry.journal, pmid |-> entry.pmid]

\* PubmedEntry.to_json
entry_to_json(entry) ==
    [title |-> entry.title, authors |-> entry.authors, year |-> entry.year,
     journal |-> entry.journal, pmid |-> entry.pmid]

\* no cache file
NoFile == [exists |-> FALSE, entries |-> <<>>]

\* PubmedCache.save: the file is written anew, each key with the fields of
\* its entry
save(mappings) ==
    [exists |-> TRUE,
     entries |-> [k \in DOMAIN mappings |-> entry_to_json(mappings[k])]]

\* PubmedCache(cache_file): the mappings read from the file, none when
\* there is no file
PubmedCache(cache_file) ==
    IF cache_file.exists
    THEN [entry_id \in DOMAIN cache_file.entries |->
            LET entry_values == cache_file.entries[entry_id]
            IN  PubmedEntry(entry_values.title, entry_values.authors,
                            entry_values.year, entry_values.journal,
                            entry_values.pmid)]
    ELSE <<>>

\* DoiCache.get, a lookup in the cache like PubmedCache.get
doi_get(mappings, doi) == get(mappings, doi)

(* --------------------------- ReferenceCollection ----------------------- *)
\* the PubMed identifier that stands for "no publication"
NullPmid == 0

\* ReferenceLink(citation)
ReferenceLink(citation) == [citation |-> citation, title |-> "", info |-> <<>>]

\* self.references[value] = link: a new key goes last, a known key keeps its
\* place
put_reference(references, link) ==
    IF \E i \in 1..Len(references) :
            references[i].citation.value = link.citation.value
    THEN [i \in 1..Len(references) |->
            IF references[i].citation.value = link.citation.value
            THEN link ELSE references[i]]
    ELSE Append(references, link)

RECURSIVE collect_keep_null(_, _, _)
\* a variant of collect that treats the null identifier like any other
collect_keep_null(publications, i, acc) ==
    IF i > Len(publications) THEN acc
    ELSE LET pub == publications[i]
             linked == [acc EXCEPT
                          !.references = put_reference(@, ReferenceLink(pub))]
         IN  collect_keep_null(publications, i + 1,
                IF pub.database = "pubmed"
                THEN [linked EXCEPT !.pmids = Append(@, pub.value)]
                ELSE IF pub.database = "doi"
                THEN [linked EXCEPT !.dois = Append(@, pub.value)]
                ELSE linked)

RECURSIVE collect(_, _, _)
\* the loop of __init__ over the publications: acc is [pmids, dois,
\* references]
collect(publications, i, acc) ==
    IF i > Len(publications) THEN acc
    ELSE LET pub == publications[i]
             linked == [acc EXCEPT
                          !.references = put_reference(@, ReferenceLink(pub))]
         IN  collect(publications, i + 1,
                IF pub.database = "pubmed"
                THEN IF pub.value = NullPmid THEN acc
                     ELSE [linked EXCEPT !.pmids = Append(@, pub.value)]
                ELSE IF pub.database = "doi"
                THEN [linked EXCEPT !.dois = Append(@, pub.value)]
                ELSE linked)

\* the article the service has for a PubMed identifier
Article(pmid) ==
    [title |-> pmid, authors |-> <<"first", "second">>, year |-> "2020",
     jrnl |-> "journal", pmid |-> pmid]

RECURSIVE add_articles(_, _, _)
\* the loop adding the fetched articles to the cache
add_articles(mappings, articles, i) ==
    IF i > Len(articles) THEN mappings
    ELSE LET a == articles[i]
         IN  add_articles(add(mappings, a.title, a.authors, a.year, a.jrnl,
                              a.pmid),
                          articles, i + 1)

\* self.references[key].title / .info = entry.title / entry.info
set_link(references, key, entry) ==
    [i \in 1..Len(references) |->
        IF references[i].citation.value = key
        THEN [references[i] EXCEPT !.title = entry.title,
                                   !.info = info(entry)]
        ELSE references[i]]

RECURSIVE resolve_each(_, _, _, _)
\* the loop of gets over the identifiers: st is [status, references, gets],
\* gets being the identifiers get was called with; the first identifier
\* that is no key of the cache ends it with a KeyError
resolve_each(mappings, ids, i, st) ==
    IF i > Len(ids) \/ st.status # "ok" THEN st
    ELSE LET got == get(mappings, ids[i])
             called == [st EXCEPT !.gets = Append(@, ids[i])]
         IN  resolve_each(mappings, ids, i + 1,
                IF got.found
                THEN [called EXCEPT
                        !.references = set_link(@, ids[i], got.entry)]
                ELSE [called EXCEPT !.status = "KeyError"])

\* ReferenceCollection._resolve_pmids(pmids); the service answers the fetch
\* of the missing identifiers with the articles `answer` (a subsequence of
\* those asked for), or fails when `fails`
resolve_pmids(mappings, pmids, references, fails, answer) ==
    LET missing == get_missing(mappings, pmids)
        fetched == missing # <<>>
        requests == IF pmids # <<>> /\ fetched
                    THEN <<[db |-> "pubmed", id |-> missing]>> ELSE <<>>
        stay == [mappings |-> mappings, requests |-> requests,
                 status |-> "ok", references |-> references,
                 wanted |-> <<>>, articles |-> <<>>, gets |-> <<>>]
    IN  IF pmids = <<>> THEN stay
        ELSE IF fetched /\ fails
        THEN [stay EXCEPT !.status = "FetchError", !.wanted = <<pmids>>]
        ELSE LET filled == IF fetched
                           THEN add_articles(mappings,
                                   [i \in 1..Len(answer) |-> Article(answer[i])],
                                   1)
                           ELSE mappings
                 done == resolve_each(filled, pmids, 1,
                            [status |-> "ok", references |-> references,
                             gets |-> <<>>])
             IN  [mappings |-> filled, requests |-> requests,
                  status |-> done.status, references |-> done.references,
                  wanted |-> <<pmids>>,
                  articles |-> IF fetched THEN answer ELSE <<>>,
                  gets |-> done.gets]

\* ReferenceCollection._resolve_dois(dois): one get per identifier
resolve_dois(doi_mappings, dois, references) ==
    resolve_each(doi_mappings, dois, 1,
                 [status |-> "ok", references |-> references, gets |-> <<>>])

\* ReferenceCollection(publications, pubmed_cache, doi_cache) followed by
\* get_links(): the cache as it is left, the fetches made, the exception
\* raised ("ok" when none) and the links; besides, the lists get_missing
\* was called with (wanted), the identifiers of the articles the service
\* answered with (articles) and the identifiers the PubMed cache was asked
\* for with get (gets)
ReferenceCollection(publications, mappings, doi_mappings, fails, answer) ==
    LET seen == collect(publications, 1,
                        [pmids |-> <<>>, dois |-> <<>>, references |-> <<>>])
        pm == resolve_pmids(mappings, seen.pmids, seen.references, fails,
                            answer)
        doi == resolve_dois(doi_mappings, seen.dois, pm.references)
        calls == [wanted |-> pm.wanted, articles |-> pm.articles,
                  gets |-> pm.gets]
    IN  IF pm.status # "ok"
        THEN [mappings |-> pm.mappings, requests |-> pm.requests,
              status |-> pm.status, links |-> <<>>, calls |-> calls]
        ELSE [mappings |-> pm.mappings, requests |-> pm.requests,
              status |-> doi.status,
              links |-> IF doi.status = "ok" THEN doi.references ELSE <<>>,
              calls |-> calls]

(* ---------------------------- generate_html ---------------------------- *)
\* region_layer.cds_children: the CDS features of the record within the
\* region, which is the one of the subregion of the annotation
cds_children(cds_features, area) ==
    SelectSeq(cds_features, LAMBDA cds : within_location(cds, area))

\* feature_names.intersection(annot_names)
shares_name(cds_feature, annot) ==
    LET annot_names == {annot.id}
                       \cup (IF Truthy(annot.name) THEN {annot.name} ELSE {})
        feature_names == {cds_feature.locus_tag, cds_feature.protein_id,
                          cds_feature.gene}
    IN  feature_names \cap annot_names # {}

\* the loop over the annotations left: the index of the first that shares a
\* name with the feature, 0 (for -1) when none does
annot_idx(cds_feature, annots) ==
    LET hits == {i \in 1..Len(annots) : shares_name(cds_feature, annots[i].annot)}
    IN  IF hits = {} THEN 0
        ELSE CHOOSE i \in hits : \A j \in hits : i <= j

\* annots.pop(annot_idx): the list without that element
pop(annots, idx) ==
    SubSeq(annots, 1, idx - 1) \o SubSeq(annots, idx + 1, Len(annots))

RECURSIVE gene_loop(_, _, _)
\* the loop of generate_html over the CDS features of the region: st is
\* [genes, annots]; the annotations go with their place in the list of the
\* entry (nth), which a gene keeps as `annotation` (0 when it popped none)
gene_loop(children, i, st) ==
    IF i > Len(children) THEN st
    ELSE LET cds_feature == children[i]
             idx == annot_idx(cds_feature, st.annots)
             gene == [real_name |-> get_name(cds_feature),
                      product |-> cds_feature.product, annotation |-> 0]
         IN  gene_loop(children, i + 1,
                IF idx > 0
                THEN LET annot == st.annots[idx]
                     IN  [genes |-> Append(st.genes,
                            [gene EXCEPT
                               !.product = IF annot.annot.product # "None"
                                           THEN annot.annot.product ELSE @,
                               !.annotation = annot.nth]),
                          annots |-> pop(st.annots, idx)]
                ELSE [st EXCEPT !.genes = Append(@, gene)])

\* generate_html from the gene loop on: the genes of the table and the
\* annotations that were not popped; `assert not annots` raises when some
\* are left
generate_genes(annotations, children) ==
    LET done == gene_loop(children, 1,
                    [genes |-> <<>>,
                     annots |-> [n \in 1..Len(annotations) |->
                                    [nth |-> n, annot |-> annotations[n]]]])
    IN  [status |-> IF done.annots = <<>> THEN "ok" ELSE "AssertionError",
         genes |-> done.genes,
         annots |-> [n \in 1..Len(done.annots) |-> done.annots[n].annot],
         left |-> {done.annots[n].nth : n \in 1..Len(done.annots)}]

NoHtml == [status |-> "none", genes |-> <<>>, annots |-> <<>>, left |-> {}]

(* ------------------------------ prefetch ------------------------------- *)
\* a value of a JSON document: a string (of a tag "pubmed", "doi" or "text"
\* and, behind the colon, a value; anything after a blank is a remark), a
\* list of values, or an object, of which the values are kept in their order
Str(tag, value, remark) ==
    [kind |-> "str", tag |-> tag, value |-> value, remark |-> remark,
     items |-> <<>>]
List(items) ==
    [kind |-> "list", tag |-> "", value |-> 0, remark |-> FALSE,
     items |-> items]
Dict(items) ==
    [kind |-> "dict", tag |-> "", value |-> 0, remark |-> FALSE,
     items |-> items]

RECURSIVE gather_references(_, _)
RECURSIVE gather_items(_, _, _)
\* the loops of gather_references over the values of an object or a list
gather_items(items, i, existing_results) ==
    IF i > Len(items) THEN existing_results
    ELSE gather_items(items, i + 1,
                      gather_references(items[i], existing_results))

\* gather_references(data, existing_results): the citations of the strings
\* that start with "pubmed:", cut at the first blank
gather_references(data, existing_results) ==
    IF data.kind \in {"dict", "list"}
    THEN gather_items(data.items, 1, existing_results)
    ELSE IF data.tag = "pubmed"
    THEN Append(existing_results,
                [database |-> "pubmed", value |-> data.value])
    ELSE existing_results

RECURSIVE extract_citations_all(_, _, _)
\* a variant of the loop of extract_pmids that keeps the citations of every
\* file
extract_citations_all(docs, i, citations) ==
    IF i > Len(docs) THEN citations
    ELSE extract_citations_all(docs, i + 1,
            citations \o gather_references(docs[i], <<>>))

RECURSIVE extract_citations(_, _, _)
\* the loop of extract_pmids over the files: citations is assigned the
\* citations of each file in turn
extract_citations(docs, i, citations) ==
    IF i > Len(docs) THEN citations
    ELSE extract_citations(docs, i + 1, gather_references(docs[i], <<>>))

\* extract_pmids(files): the sorted values of the citations; with no file
\* citations was never assigned
extract_pmids(docs) ==
    IF docs = <<>>
    THEN [status |-> "UnboundLocalError", pmids |-> <<>>]
    ELSE LET citations == extract_citations(docs, 1, <<>>)
         IN  [status |-> "ok",
              pmids |-> SortedSeq({citations[i].value :
                                      i \in 1..Len(citations)})]

(* ------------------------------- state --------------------------------- *)
VARIABLES
    data,       \* the annotation document as it is on disk
    record,     \* the genomic record of the run
    orig,       \* the record as it was parsed, before any merge
    prev,       \* the minimal snapshot persisted with the results
    prev_data,  \* the annotation document the persisted snapshot was made of
    last,       \* the last call of the pipeline: status, result, log, detail
    exit_code,  \* what main returned
    edits,      \* number of changes to the inputs since the first run
    pc,         \* "start", "analysed", "failed", "reused", "rejected"
    pubmed_cache,   \* PubmedCache.mappings of the process
    doi_cache,      \* DoiCache.mappings of the process
    publications,   \* the citation list of the last resolution
    resolution,     \* its fetches, its status and its links
    cache_before,   \* the keys of pubmed_cache when it started
    again,          \* whether it repeats the resolution before it, which
                    \* had gone through without error
    cache_file,     \* the PubMed cache file on disk
    at_save,        \* PubmedCache.mappings as they were when it was written
    reloaded,       \* a second PubmedCache, made of the cache file
    op,             \* the last operation on the cache, with its result
    files,          \* the documents of the input directory, in glob order
    pmids,          \* the identifiers the prefetch wants
    missing,        \* those of them it still misses
    saves,          \* how often the prefetch has saved the cache
    html            \* what generate_html made of the genes of the region

mergevars_but_pc ==
    <<data, record, orig, prev, prev_data, last, exit_code, edits>>

mergevars ==
    <<data, record, orig, prev, prev_data, last, exit_code, edits, pc>>

toolvars ==
    <<cache_file, at_save, reloaded, op, files, pmids, missing, saves, html>>

refvars ==
    <<pubmed_cache, doi_cache, publications, resolution, cache_before,
      again, toolvars>>

vars == <<mergevars, refvars>>

NoResolution ==
    [requests |-> <<>>, status |-> "none", links |-> <<>>,
     calls |-> [wanted |-> <<>>, articles |-> <<>>, gets |-> <<>>]]

NoOp == [name |-> "none", arg |-> <<>>, result |-> <<>>]

NotLoaded == [loaded |-> FALSE, mappings |-> <<>>]

\* neither a cache file nor a prefetch
InitTools(file) ==
    /\ cache_file = file
    /\ at_save = PubmedCache(file)
    /\ reloaded = NotLoaded
    /\ op = NoOp
    /\ files = <<>>
    /\ pmids = <<>>
    /\ missing = <<>>
    /\ saves = 0
    /\ html = NoHtml

\* no reference has been resolved
InitRefs(mappings, doi_mappings) ==
    /\ InitTools(NoFile)
    /\ pubmed_cache = mappings
    /\ doi_cache = doi_mappings
    /\ publications = <<>>
    /\ resolution = NoResolution
    /\ cache_before = DOMAIN mappings
    /\ again = FALSE

NoCall == Call("none", NoResult, Record("", <<>>), <<>>, NoDetail)

InitState(d, r) ==
    /\ data = d
    /\ record = r
    /\ orig = r
    /\ prev = NoPrev
    /\ prev_data = NoData
    /\ last = NoCall
    /\ exit_code = None
    /\ edits = 0
    /\ pc = "start"
    /\ InitRefs(<<>>, <<>>)

\* Spec: any locus, and at most one CDS (known by its locus tag) or one
\* extra gene
Init ==
    \E start \in CoordOpt, end \in CoordOpt :
        \/ \E n \in 0..1 :
              \E cds \in [1..n -> {c \in CdsFeatures : c.protein_id = None
                                                      /\ c.gene = None}] :
              InitState(Snapshot("ACC1", start, end, <<>>, <<>>, <<>>, NoRefs),
                        Record("rec1", cds))
        \/ \E g \in ExtraGenes :
              InitState(Snapshot("ACC1", start, end, <<>>, <<g>>, <<>>, NoRefs),
                        Record("rec1", <<>>))

(* ------------------------------ actions -------------------------------- *)
\* a first run of main on a sequence file: mibig_loader, and the results are
\* written with to_json when it succeeds
MainFresh ==
    /\ pc = "start"
    /\ LET m == main(FALSE, prev, record, data)
       IN  /\ last' = m.call
           /\ record' = m.call.record
           /\ exit_code' = m.exit
           /\ IF m.call.status = "ok"
              THEN /\ prev' = to_json(m.call.result)
                   /\ prev_data' = data
                   /\ pc' = "analysed"
              ELSE /\ UNCHANGED <<prev, prev_data>>
                   /\ pc' = "failed"
    /\ UNCHANGED <<data, orig, edits, refvars>>

\* a later run of main with --reuse-results: from_json on the persisted
\* snapshot, the record of the results and the annotation document of now
MainReuse ==
    /\ pc = "analysed"
    /\ LET m == main(TRUE, prev, record, data)
       IN  /\ last' = m.call
           /\ record' = m.call.record
           /\ exit_code' = m.exit
           /\ pc' = IF m.call.status = "ok" THEN "reused" ELSE "rejected"
    /\ UNCHANGED <<data, orig, prev, prev_data, edits, refvars>>

CanEdit == pc = "analysed" /\ edits < MaxEdits

Edited(d) ==
    /\ data' = d
    /\ edits' = edits + 1
    /\ UNCHANGED <<record, orig, prev, prev_data, last, exit_code, pc, refvars>>

\* the annotation document is updated between the runs
EditAccession ==
    /\ CanEdit
    /\ \E a \in Accessions \ {data.loci.accession} :
          Edited([data EXCEPT !.loci.accession = a])

EditStart ==
    /\ CanEdit
    /\ \E c \in CoordOpt \ {data.loci.start} :
          Edited([data EXCEPT !.loci.start = c])

EditEnd ==
    /\ CanEdit
    /\ \E c \in CoordOpt \ {data.loci.end} :
          Edited([data EXCEPT !.loci.end = c])

EditAnnotations ==
    /\ CanEdit
    /\ \/ \E n \in Names :
            Edited([data EXCEPT !.annotations =
                      Append(@, [id |-> n, name |-> None, product |-> "None"])])
       \/ /\ data.annotations # <<>>
          /\ Edited([data EXCEPT !.annotations = SubSeq(@, 1, Len(@) - 1)])

EditExtraGenes ==
    /\ CanEdit
    /\ \/ \E n \in Names :
            Edited([data EXCEPT !.extra_genes =
                      Append(@, [id |-> n, location |-> <<>>])])
       \/ /\ data.extra_genes # <<>>
          /\ Edited([data EXCEPT !.extra_genes = SubSeq(@, 1, Len(@) - 1)])

EditToDelete ==
    /\ CanEdit
    /\ \E n \in (0..Cardinality(Names)) \ {Len(data.to_delete)} :
          Edited([data EXCEPT !.to_delete = ToDelete(n)])

\* the results reused belong to a record with another identifier
EditRecordId ==
    /\ CanEdit
    /\ \E r \in RecordIds \ {record.id} :
          /\ record' = [record EXCEPT !.id = r]
          /\ edits' = edits + 1
          /\ UNCHANGED <<data, orig, prev, prev_data, last, exit_code, pc,
                         refvars>>

Next ==
    \/ MainFresh
    \/ MainReuse
    \/ EditAccession
    \/ EditStart
    \/ EditEnd
    \/ EditAnnotations
    \/ EditExtraGenes
    \/ EditToDelete
    \/ EditRecordId

Spec == Init /\ [][Next]_vars

(* --------------------- the merge on its own: SpecMerge ----------------- *)
\* the gene references of the biosynthesis description, by section
RefSections == {1, 2, 3, 4}

Refs(pairs) == [k \in RefSections |-> {p[2] : p \in {q \in pairs : q[1] = k}}]

\* the sets of at most n gene references
RefSets(n) == {P \in SUBSET (RefSections \X Names) : Cardinality(P) <= n}

\* the features of a record as parsed have different names (get_name), and
\* the genes-to-add that have an identifier are new to the record and
\* different from each other, so that add_cds_feature meets no name twice
DistinctNames(cds_features, extra_genes) ==
    LET names == [i \in 1..Len(cds_features) |-> get_name(cds_features[i])]
                    \o [i \in 1..Len(extra_genes) |-> extra_genes[i].id]
    IN  \A i, j \in 1..Len(names) :
            (i < j /\ names[i] = names[j]) => names[i] = None

\* SpecMerge: the subregion starts at the second base of the record; at most
\* MaxItems features, annotations, extra genes and gene references in all,
\* at most two CDS features in the record as parsed, at different places
InitMerge ==
    \E nc \in 0..2 : \E na \in 0..(MaxItems - nc) :
      \E ng \in 0..(MaxItems - nc - na) :
        \E cds \in [1..nc -> CdsFeatures],
           extra_genes \in [1..ng -> ExtraGenes] :
          /\ \A i \in 1..(nc - 1) :
                LocBefore(cds[i].location, cds[i + 1].location)
          /\ DistinctNames(cds, extra_genes)
          /\ \E annotations \in [1..na -> Annotations],
                pairs \in RefSets(MaxItems - nc - na - ng) :
               InitState(Snapshot("ACC1", 2, None, annotations,
                                  extra_genes, <<>>, Refs(pairs)),
                         Record("rec1", cds))

NextMerge == MainFresh

SpecMerge == InitMerge /\ [][NextMerge]_vars

(* ------------------- the merge and the page: SpecRender ---------------- *)
\* generate_html on the result of the merge, for an entry without
\* references: the popped annotations are gone from the list of the entry
GenerateHtml ==
    /\ pc = "analysed"
    /\ LET rc == ReferenceCollection(<<>>, pubmed_cache, doi_cache, FALSE, <<>>)
           page == generate_genes(data.annotations,
                                  cds_children(record.cds, last.result.area))
       IN  /\ publications' = <<>>
           /\ resolution' = [requests |-> rc.requests, status |-> rc.status,
                             links |-> rc.links, calls |-> rc.calls]
           /\ html' = page
           /\ data' = [data EXCEPT !.annotations = page.annots]
           /\ pc' = IF page.status = "ok" THEN "rendered" ELSE "render_failed"
    /\ UNCHANGED <<record, orig, prev, prev_data, last, exit_code, edits,
                   pubmed_cache, doi_cache, cache_before, again, cache_file,
                   at_save, reloaded, op, files, pmids, missing, saves>>

NextRender ==
    \/ MainFresh
    \/ GenerateHtml

SpecRender == InitMerge /\ [][NextRender]_vars

(* ------------------- the reference resolver: SpecRef ------------------ *)
\* PubMed identifiers are 1..MaxPmid
MaxPmid == 2
\* a citation list has at most MaxCitations citations
MaxCitations == 2

Pmids == 1..MaxPmid
Dois == {101, 102}

Citations ==
    [database : {"pubmed"}, value : Pmids \cup {NullPmid}]
        \cup [database : {"doi"}, value : Dois]

CitationLists == UNION {[1..n -> Citations] : n \in 0..MaxCitations}

\* a cache as loaded from its file
Loaded(keys) == [k \in keys |-> PubmedEntry(k, <<"first", "second">>, "2020",
                                           "journal", k)]

\* the sorted subsequences of a sorted sequence of identifiers
Answers(asked) == {SortedSeq(S) : S \in SUBSET Range(asked)}

InitRef ==
    /\ data = NoData
    /\ record = Record("", <<>>)
    /\ orig = Record("", <<>>)
    /\ prev = NoPrev
    /\ prev_data = NoData
    /\ last = NoCall
    /\ exit_code = None
    /\ edits = 0
    /\ pc = "render"
    /\ \E keys \in SUBSET Pmids, doi_keys \in SUBSET Dois :
          InitRefs(Loaded(keys), Loaded(doi_keys))

\* generate_html builds the ReferenceCollection of the references of an
\* entry and takes its links
Resolve ==
    /\ pc = "render"
    /\ \E pubs \in CitationLists, fails \in BOOLEAN :
        \E answer \in Answers(get_missing(pubmed_cache,
                         collect(pubs, 1, [pmids |-> <<>>, dois |-> <<>>,
                                           references |-> <<>>]).pmids)) :
          LET rc == ReferenceCollection(pubs, pubmed_cache, doi_cache, fails,
                                        answer)
          IN  /\ pubmed_cache' = rc.mappings
              /\ publications' = pubs
              /\ resolution' = [requests |-> rc.requests,
                                status |-> rc.status, links |-> rc.links,
                                calls |-> rc.calls]
              /\ cache_before' = DOMAIN pubmed_cache
              /\ again' = (resolution.status = "ok" /\ pubs = publications)
    /\ UNCHANGED <<doi_cache, mergevars, toolvars>>

NextRef == Resolve

SpecRef == InitRef /\ [][NextRef]_vars

(* ---------------------- the PubMed cache: SpecCache -------------------- *)
\* the titles an entry may be added with: the one the service has for the
\* identifier, and another one
Titles(pmid) == {pmid, 0}

Entries(pmid) ==
    {PubmedEntry(t, <<"first", "second">>, "2020", "journal", pmid) :
        t \in Titles(pmid)}

\* the mappings a cache can hold: some identifiers, each with an entry of
\* its own
Caches ==
    UNION {{c \in [keys -> UNION {Entries(k) : k \in keys}] :
                \A k \in keys : c[k] \in Entries(k)} :
           keys \in SUBSET Pmids}

\* the lists get_missing is called with
WantLists == UNION {[1..n -> Pmids] : n \in 0..MaxCitations}

\* an operation on the cache: its name, its argument, whether it went
\* through, the entry it returned and the list it returned
Op(name, arg, ok, entry, result) ==
    [name |-> name, arg |-> arg, ok |-> ok, entry |-> entry,
     result |-> result]

NoEntry == PubmedEntry(0, <<>>, "", "", 0)

\* one round of the loop of fetch_all: the articles of the answer are added
fetch_round(mappings, answer) ==
    add_articles(mappings, [i \in 1..Len(answer) |-> Article(answer[i])], 1)

\* a process that has made its PubmedCache of the cache file
InitCache ==
    /\ data = NoData
    /\ record = Record("", <<>>)
    /\ orig = Record("", <<>>)
    /\ prev = NoPrev
    /\ prev_data = NoData
    /\ last = NoCall
    /\ exit_code = None
    /\ edits = 0
    /\ pc = "cache"
    /\ \E file \in {NoFile} \cup {save(c) : c \in Caches} :
          /\ cache_file = file
          /\ at_save = PubmedCache(file)
          /\ pubmed_cache = PubmedCache(file)
          /\ cache_before = DOMAIN PubmedCache(file)
    /\ doi_cache = Loaded(Dois)
    /\ publications = <<>>
    /\ resolution = NoResolution
    /\ again = FALSE
    /\ reloaded = NotLoaded
    /\ op = Op("none", <<>>, TRUE, NoEntry, <<>>)
    /\ files = <<>>
    /\ pmids = <<>>
    /\ missing = <<>>
    /\ saves = 0
    /\ html = NoHtml

\* what no operation on the cache changes
cache_fixed ==
    <<mergevars, doi_cache, publications, resolution, cache_before, again,
      files, pmids, missing, saves, html>>

\* pubmed_cache.add(title, authors, year, journal, pmid)
CacheAdd ==
    /\ pc = "cache"
    /\ \E pmid \in Pmids : \E title \in Titles(pmid) :
          /\ pubmed_cache' = add(pubmed_cache, title, <<"first", "second">>,
                                 "2020", "journal", pmid)
          /\ op' = Op("add", <<pmid>>, TRUE, NoEntry, <<>>)
    /\ reloaded' = NotLoaded
    /\ UNCHANGED <<cache_file, at_save, cache_fixed>>

\* pubmed_cache.get(pmid)
CacheGet ==
    /\ pc = "cache"
    /\ \E pmid \in Pmids :
          LET got == get(pubmed_cache, pmid)
          IN  op' = Op("get", <<pmid>>, got.found,
                       IF got.found THEN got.entry ELSE NoEntry, <<>>)
    /\ reloaded' = NotLoaded
    /\ UNCHANGED <<pubmed_cache, cache_file, at_save, cache_fixed>>

\* pubmed_cache.get_missing(want)
CacheGetMissing ==
    /\ pc = "cache"
    /\ \E want \in WantLists :
          op' = Op("get_missing", want, TRUE, NoEntry,
                   get_missing(pubmed_cache, want))
    /\ reloaded' = NotLoaded
    /\ UNCHANGED <<pubmed_cache, cache_file, at_save, cache_fixed>>

\* pubmed_cache.save()
CacheSave ==
    /\ pc = "cache"
    /\ cache_file' = save(pubmed_cache)
    /\ at_save' = pubmed_cache
    /\ op' = Op("save", <<>>, TRUE, NoEntry, <<>>)
    /\ reloaded' = NotLoaded
    /\ UNCHANGED <<pubmed_cache, cache_fixed>>

\* PubmedCache(cache_file): another cache is made of the file
CacheLoad ==
    /\ pc = "cache"
    /\ reloaded' = [loaded |-> TRUE, mappings |-> PubmedCache(cache_file)]
    /\ op' = Op("load", <<>>, TRUE, NoEntry, <<>>)
    /\ UNCHANGED <<pubmed_cache, cache_file, at_save, cache_fixed>>

\* ReferenceCollection(publications, pubmed_cache, doi_cache) on the cache
CacheResolve ==
    /\ pc = "cache"
    /\ \E pubs \in CitationLists, fails \in BOOLEAN :
        \E answer \in Answers(get_missing(pubmed_cache,
                         collect(pubs, 1, [pmids |-> <<>>, dois |-> <<>>,
                                           references |-> <<>>]).pmids)) :
          LET rc == ReferenceCollection(pubs, pubmed_cache, doi_cache, fails,
                                        answer)
          IN  /\ pubmed_cache' = rc.mappings
              /\ op' = Op("resolve", rc.calls.gets, rc.status = "ok",
                          NoEntry, rc.calls.articles)
    /\ reloaded' = NotLoaded
    /\ UNCHANGED <<cache_file, at_save, cache_fixed>>

\* a round of the loop of fetch_all of the prefetch on the cache, for a
\* sorted list of wanted identifiers some of which are missing
CachePrefetch ==
    /\ pc = "cache"
    /\ \E wanted \in SUBSET Pmids :
          LET asked == get_missing(pubmed_cache, SortedSeq(wanted))
          IN  /\ asked # <<>>
              /\ \E answer \in Answers(asked) :
                    /\ pubmed_cache' = fetch_round(pubmed_cache, answer)
                    /\ op' = Op("prefetch", asked, TRUE, NoEntry, answer)
    /\ reloaded' = NotLoaded
    /\ UNCHANGED <<cache_file, at_save, cache_fixed>>

NextCache ==
    \/ CacheAdd
    \/ CacheGet
    \/ CacheGetMissing
    \/ CacheSave
    \/ CacheLoad
    \/ CacheResolve
    \/ CachePrefetch

SpecCache == InitCache /\ [][NextCache]_vars

(* -------------------- the PubMed prefetch: SpecPrefetch ---------------- *)
\* the input directory has at most MaxFiles documents
MaxFiles == 2

\* the strings citing the identifiers of a set, in ascending order
CitingStrs(S, remark) ==
    LET ids == SortedSeq(S)
    IN  [i \in 1..Len(ids) |-> Str("pubmed", ids[i], remark)]

\* the documents: for each set of identifiers, an object with a list of its
\* citations next to a text, and an object within an object with a list of
\* its citations, with remarks, behind a DOI
Documents ==
    {Dict(<<List(CitingStrs(S, FALSE)), Str("text", 0, FALSE)>>) :
        S \in SUBSET Pmids}
    \cup {Dict(<<Dict(<<Str("doi", 101, FALSE),
                       List(CitingStrs(S, TRUE))>>)>>) :
            S \in SUBSET Pmids}

FileLists == UNION {[1..n -> Documents] : n \in 0..MaxFiles}

\* the prefetch is started on a directory, with or without a cache file
InitPrefetch ==
    /\ data = NoData
    /\ record = Record("", <<>>)
    /\ orig = Record("", <<>>)
    /\ prev = NoPrev
    /\ prev_data = NoData
    /\ last = NoCall
    /\ exit_code = None
    /\ edits = 0
    /\ pc = "main"
    /\ \E file \in {NoFile} \cup {save(Loaded(keys)) : keys \in SUBSET Pmids} :
          /\ cache_file = file
          /\ at_save = PubmedCache(file)
    /\ files \in FileLists
    /\ pubmed_cache = <<>>
    /\ cache_before = {}
    /\ doi_cache = <<>>
    /\ publications = <<>>
    /\ resolution = NoResolution
    /\ again = FALSE
    /\ reloaded = NotLoaded
    /\ op = Op("none", <<>>, TRUE, NoEntry, <<>>)
    /\ pmids = <<>>
    /\ missing = <<>>
    /\ saves = 0
    /\ html = NoHtml

\* what the prefetch never changes
prefetch_fixed ==
    <<mergevars_but_pc, doi_cache, publications, resolution, again, reloaded,
      files, html>>

\* pmids = extract_pmids(glob.glob(...))
ExtractPmids ==
    /\ pc = "main"
    /\ LET extracted == extract_pmids(files)
       IN  /\ pmids' = extracted.pmids
           /\ pc' = IF extracted.status = "ok" THEN "fetch_all" ELSE "crashed"
           /\ op' = Op("extract_pmids", <<>>, extracted.status = "ok",
                       NoEntry, extracted.pmids)
    /\ UNCHANGED <<pubmed_cache, cache_before, cache_file, at_save, missing,
                   saves, prefetch_fixed>>

\* fetch_all up to its loop: the cache is made of the cache file and asked
\* for the missing identifiers
OpenCache ==
    /\ pc = "fetch_all"
    /\ pubmed_cache' = PubmedCache(cache_file)
    /\ cache_before' = DOMAIN PubmedCache(cache_file)
    /\ missing' = get_missing(PubmedCache(cache_file), pmids)
    /\ op' = Op("get_missing", pmids, TRUE, NoEntry,
                get_missing(PubmedCache(cache_file), pmids))
    /\ pc' = "loop"
    /\ UNCHANGED <<cache_file, at_save, pmids, saves, prefetch_fixed>>

\* a round of the loop, the service answering with the articles `answer`
FetchWith(answer) ==
    /\ pc = "loop"
    /\ missing # <<>>
    /\ pubmed_cache' = fetch_round(pubmed_cache, answer)
    /\ missing' = get_missing(fetch_round(pubmed_cache, answer), pmids)
    /\ op' = Op("prefetch", missing, TRUE, NoEntry, answer)
    /\ UNCHANGED <<pc, cache_before, cache_file, at_save, pmids, saves,
                   prefetch_fixed>>

\* a round the service answers with some of the articles asked for
FetchRound == \E answer \in Answers(missing) : FetchWith(answer)

\* a round the service answers with every article asked for
FetchComplete == FetchWith(missing)

\* a round in which client.efetch raises: nothing catches it
FetchRaises ==
    /\ pc = "loop"
    /\ missing # <<>>
    /\ pc' = "crashed"
    /\ op' = Op("prefetch", missing, FALSE, NoEntry, <<>>)
    /\ UNCHANGED <<pubmed_cache, cache_before, cache_file, at_save, pmids,
                   missing, saves, prefetch_fixed>>

\* a variant of SaveCache that does not wait for the missing identifiers
SaveCacheEarly ==
    /\ pc = "loop"
    /\ cache_file' = save(pubmed_cache)
    /\ at_save' = pubmed_cache
    /\ saves' = saves + 1
    /\ op' = Op("save", <<>>, TRUE, NoEntry, <<>>)
    /\ pc' = "done"
    /\ UNCHANGED <<pubmed_cache, cache_before, pmids, missing,
                   prefetch_fixed>>

\* the loop is left and pubmed_cache.save() is called
SaveCache ==
    /\ pc = "loop"
    /\ missing = <<>>
    /\ cache_file' = save(pubmed_cache)
    /\ at_save' = pubmed_cache
    /\ saves' = saves + 1
    /\ op' = Op("save", <<>>, TRUE, NoEntry, <<>>)
    /\ pc' = "done"
    /\ UNCHANGED <<pubmed_cache, cache_before, pmids, missing,
                   prefetch_fixed>>

NextPrefetch ==
    \/ ExtractPmids
    \/ OpenCache
    \/ FetchRound
    \/ FetchRaises
    \/ SaveCache

SpecPrefetch == InitPrefetch /\ [][NextPrefetch]_vars

\* the process keeps running, and the service answers in the end with
\* every article it is asked for
SpecPrefetchFair ==
    /\ SpecPrefetch
    /\ WF_vars(ExtractPmids)
    /\ WF_vars(OpenCache)
    /\ WF_vars(FetchComplete)
    /\ WF_vars(SaveCache)

(* ======================= the reuse decision (Spec) ===================== *)
\* a second run has taken its decision
Decided == pc \in {"reused", "rejected"}

\* the compared fields in which the persisted snapshot and the inputs of the
\* second run differ; the genes-to-delete of the persisted side are those of
\* the document it was made of
DifferingFields ==
    {f \in {"genbank_accession", "record_id", "begin", "end",
            "gene_annotations", "extra_genes", "to_delete"} :
        CASE f = "genbank_accession" ->
                data.loci.accession # prev.genbank_accession
          [] f = "record_id" -> record.id # prev.record_id
          [] f = "begin" ->
                (IF data.loci.start = None THEN -1 ELSE data.loci.start)
                    # prev.coords[1]
          [] f = "end" ->
                (IF data.loci.end = None THEN -1 ELSE data.loci.end)
                    # prev.coords[2]
          [] f = "gene_annotations" ->
                Len(data.annotations) # Len(prev.gene_annotations)
          [] f = "extra_genes" ->
                Len(data.extra_genes) # Len(prev.extra_genes)
          [] f = "to_delete" ->
                Len(data.to_delete) # Len(prev_data.to_delete)}

Rejected == last.status = "AntismashInputError"

C2_RoundTrip ==
    /\ pc \in {"analysed", "reused", "rejected"} =>
          /\ prev.coords[1] = (IF prev_data.loci.start = None THEN -1
                               ELSE prev_data.loci.start)
          /\ prev.coords[2] = (IF prev_data.loci.end = None THEN -1
                               ELSE prev_data.loci.end)
    /\ (Decided /\ data = prev_data /\ record.id = prev.record_id) =>
          (pc = "reused" /\ last.status = "ok")

C2_Witness ==
    /\ pc = "reused"
    /\ data = prev_data
    /\ data.loci.start = None
    /\ data.loci.end # None
    /\ prev.coords = <<-1, data.loci.end>>

\* the error-level entries of the log saying that reuse is impossible
CantReuseEntries ==
    {i \in 1..Len(last.log) :
        last.log[i] = LogEntry("error", "Can't reuse MIBiG annotation.")}

\* C3: when a second run finds a mismatch, "can't reuse" is logged once at
\* error level, an AntismashInputError is raised, no result is returned and
\* main returns a non-zero exit code.
C3_MismatchIsFatal ==
    (Decided /\ DifferingFields \ {"to_delete"} # {}) =>
        /\ Cardinality(CantReuseEntries) = 1
        /\ last.status = "AntismashInputError"
        /\ last.result = NoResult
        /\ exit_code \notin {0, None}
        /\ pc = "rejected"

C3_Witness ==
    /\ pc = "rejected"
    /\ "begin" \in DifferingFields
    /\ exit_code = 1
    /\ Cardinality(CantReuseEntries) = 1

\* C4: a run that accepts reuse leaves the record as it was: no CDS added,
\* no product rewritten, no alteration noted.
C4_ReuseLeavesRecord ==
    [][(pc = "analysed" /\ pc' = "reused") => record' = record]_vars

C4_Witness ==
    /\ pc = "reused"
    /\ record.cds # <<>>
    /\ record.alterations # <<>>

(* ========================= the subregion (Spec) ======================== *)
\* the result of a run that ended well: of mibig_loader after the first
\* run, of from_json after an accepted second run
HasArea == pc \in {"analysed", "reused"}

ClaimedBegin(d) == IF d.loci.start # None THEN d.loci.start - 1 ELSE 0
ClaimedEnd(d, r) == IF d.loci.end # None THEN d.loci.end ELSE r.seqlen

AreaAsClaimed ==
    /\ last.result.area.start = ClaimedBegin(last.result.data)
    /\ last.result.area.end = ClaimedEnd(last.result.data, record)

\* C9, as stated: the subregion of both paths is (begin - 1 or 0, end or the
\* record length), and 0 <= begin <= end <= record length.
C9_Original ==
    HasArea =>
        /\ AreaAsClaimed
        /\ 0 <= last.result.area.start
        /\ last.result.area.start <= last.result.area.end
        /\ last.result.area.end <= record.seqlen

\* C9, amended: the subregion of both paths is (begin - 1 or 0, end or the
\* record length), 0 <= begin <= end, and end <= record length unless the
\* annotated end exceeds the record length.
C9_Subregion ==
    HasArea =>
        /\ AreaAsClaimed
        /\ 0 <= last.result.area.start
        /\ last.result.area.start <= last.result.area.end
        /\ (last.result.data.loci.end = None
              \/ last.result.data.loci.end <= record.seqlen)
             <=> last.result.area.end <= record.seqlen

C9_Witness ==
    /\ pc = "reused"
    /\ data.loci.start # None
    /\ data.loci.end = None
    /\ last.result.area = [valid |-> TRUE, start |-> data.loci.start - 1,
                           end |-> record.seqlen]

(* ========================= the merge (SpecMerge) ======================= *)
\* mibig_loader has run
Merged == pc \in {"analysed", "failed"}

\* the subregion of the annotation document
ClaimedArea == [start |-> ClaimedBegin(data), end |-> ClaimedEnd(data, orig)]

Inside(location) ==
    \A i \in 1..Len(location) :
        ClaimedArea.start <= location[i].start
            /\ location[i].end <= ClaimedArea.end

\* 0-based half open parts of the exons of an extra gene
PartsOf(gene) ==
    [i \in 1..Len(gene.location) |->
        [start |-> gene.location[i].start - 1, end |-> gene.location[i].end]]

HasIdAndLocation(gene) == gene.id # None /\ gene.location # <<>>

\* the genes-to-add with identifier and location that are not fully inside
\* the subregion
Offending ==
    {i \in 1..Len(data.extra_genes) :
        /\ HasIdAndLocation(data.extra_genes[i])
        /\ ~Inside(PartsOf(data.extra_genes[i]))}

FirstOffending == CHOOSE i \in Offending : \A j \in Offending : i <= j

Count(seq, x) == Cardinality({i \in 1..Len(seq) : seq[i] = x})

\* the same elements, as often
SameBag(a, b) ==
    /\ Len(a) = Len(b)
    /\ \A i \in 1..Len(a) : Count(a, a[i]) = Count(b, a[i])

SelectIndices(n, Keep(_)) ==
    LET F[i \in 0..n] ==
            IF i = 0 THEN <<>>
            ELSE IF Keep(i) THEN Append(F[i - 1], i) ELSE F[i - 1]
    IN  F[n]

\* the features and the notes the genes-to-add at the indices idx stand for
FeaturesOf(idx) ==
    [k \in 1..Len(idx) |->
        [locus_tag |-> data.extra_genes[idx[k]].id, protein_id |-> None,
         gene |-> None, location |-> PartsOf(data.extra_genes[idx[k]]),
         product |-> ""]]

NotesOf(idx) ==
    [k \in 1..Len(idx) |->
        [note |-> "was added", name |-> data.extra_genes[idx[k]].id]]

\* the record holds its features as parsed, products untouched, and the
\* genes-to-add at idx, each with its note
RecordHoldsExactly(idx) ==
    /\ SameBag(record.cds, orig.cds \o FeaturesOf(idx))
    /\ record.alterations = orig.alterations \o NotesOf(idx)

\* C5, as stated: if a gene-to-add with identifier and location is not
\* inside the subregion, the merge raises at the first such gene; the record
\* then holds exactly the genes-to-add that precede it, all of them, and no
\* product is re-tagged.
C5_Original ==
    (Merged /\ Offending # {}) =>
        /\ last.status = "ValueError:outside"
        /\ last.detail.gene = data.extra_genes[FirstOffending].id
        /\ RecordHoldsExactly(
              SelectIndices(FirstOffending - 1, LAMBDA i : TRUE))

\* C5, amended: ... the record then holds exactly the genes-to-add that
\* precede it and have both an identifier and a location (the others are
\* skipped), and no product is re-tagged.
C5_RaiseAtFirstOutside ==
    (Merged /\ Offending # {}) =>
        /\ last.status = "ValueError:outside"
        /\ last.detail.gene = data.extra_genes[FirstOffending].id
        /\ RecordHoldsExactly(
              SelectIndices(FirstOffending - 1,
                            LAMBDA i : HasIdAndLocation(data.extra_genes[i])))

C5_Witness ==
    /\ pc = "failed"
    /\ Offending # {}
    /\ FirstOffending = 3
    /\ Len(record.cds) = 1
    /\ Len(record.alterations) = 1

\* the identifiers of the genes of the record
ClaimedExisting ==
    {n \in Names : \E i \in 1..Len(record.cds) :
        n \in {record.cds[i].locus_tag, record.cds[i].protein_id,
               record.cds[i].gene}}

\* the identifiers the annotation refers to
ClaimedReferenced ==
    {n \in Names :
        \/ \E i \in 1..Len(data.annotations) : data.annotations[i].id = n
        \/ n \in data.nrp
        \/ n \in data.polyketide
        \/ n \in data.saccharide
        \/ n \in data.compounds}

IsSorted(seq) == \A i, j \in 1..Len(seq) : i < j => seq[i] < seq[j]

\* C6: once the add and re-tag steps are through, the merge raises the
\* dangling-reference error if and only if a referenced identifier is no
\* locus tag, protein id or gene name of a gene of the record; the error
\* lists exactly the missing identifiers, sorted, with the accession, and
\* no result is returned.
C6_DanglingReference ==
    (Merged /\ Offending = {}) =>
        /\ last.status = "ValueError:missing"
              <=> ClaimedReferenced \ ClaimedExisting # {}
        /\ last.status = "ValueError:missing" =>
              /\ Range(last.detail.missing)
                    = ClaimedReferenced \ ClaimedExisting
              /\ IsSorted(last.detail.missing)
              /\ last.detail.accession = data.mibig_accession
              /\ last.result = NoResult
              /\ exit_code # 0
        /\ last.status # "ValueError:missing" => last.status = "ok"

C6_Witness ==
    /\ pc = "failed"
    /\ last.status = "ValueError:missing"
    /\ last.detail.missing = <<1, 2>>
    /\ last.detail.accession = "BGC1"

\* the genes of the record an identifier resolves to
ResolvesTo(n) ==
    {i \in 1..Len(record.cds) :
        n \in {record.cds[i].locus_tag, record.cds[i].protein_id,
               record.cds[i].gene}}

\* C7: the merge raises whenever a referenced identifier resolves to more
\* than one gene of the record; it never returns a result then.
C7_AmbiguousReference ==
    (Merged /\ \E n \in ClaimedReferenced : Cardinality(ResolvesTo(n)) > 1)
        => last.status # "ok"

\* the record once the genes-to-add are in, before the re-tagging
BeforeRetag ==
    add_extra_genes([raised |-> FALSE, gene |-> None, record |-> orig],
                    data.extra_genes, 1, ClaimedArea).record.cds

MatchesBy(c, a) ==
    CASE c.locus_tag # None /\ a.id = c.locus_tag -> "locus_tag"
      [] c.protein_id # None /\ a.id = c.protein_id -> "protein_id"
      [] c.gene # None /\ a.name = c.gene -> "gene"
      [] OTHER -> "none"

\* the annotations matching c by the field f
MatchingBy(c, f) ==
    {j \in 1..Len(data.annotations) : MatchesBy(c, data.annotations[j]) = f}

Min(S) == CHOOSE x \in S : \A y \in S : x <= y
Max(S) == CHOOSE x \in S : \A y \in S : x >= y

\* the one annotation of c when the first match wins: by locus tag, then
\* by protein id, then by gene name; 0 when none matches
FirstMatch(c) ==
    IF MatchingBy(c, "locus_tag") # {} THEN Min(MatchingBy(c, "locus_tag"))
    ELSE IF MatchingBy(c, "protein_id") # {}
    THEN Min(MatchingBy(c, "protein_id"))
    ELSE IF MatchingBy(c, "gene") # {} THEN Min(MatchingBy(c, "gene"))
    ELSE 0

ProductIfFirstMatchWins(c) ==
    IF FirstMatch(c) # 0 /\ data.annotations[FirstMatch(c)].product # "None"
    THEN data.annotations[FirstMatch(c)].product
    ELSE c.product

\* the matching annotations that supply a product
Suppliers(c) ==
    {j \in 1..Len(data.annotations) :
        /\ MatchesBy(c, data.annotations[j]) # "none"
        /\ data.annotations[j].product # "None"}

ProductOfLastSupplier(c) ==
    IF Suppliers(c) # {} THEN data.annotations[Max(Suppliers(c))].product
    ELSE c.product

\* the record is the one before the re-tagging, but for the products of the
\* features inside the subregion, which are Product(feature)
Retagged(Product(_)) ==
    /\ Len(record.cds) = Len(BeforeRetag)
    /\ \A i \in 1..Len(BeforeRetag) :
          record.cds[i] =
              IF Inside(BeforeRetag[i].location)
              THEN [BeforeRetag[i] EXCEPT !.product = Product(BeforeRetag[i])]
              ELSE BeforeRetag[i]

\* C8, as stated: after a successful merge a feature inside the subregion
\* has the product of its matched annotation (matched by locus tag, then
\* protein id, then gene name, the first match wins) if that annotation
\* supplies one; any other feature keeps its product.
C8_Original ==
    pc = "analysed" => Retagged(ProductIfFirstMatchWins)

\* C8, amended: after a successful merge a feature inside the subregion has
\* the product of the last annotation in list order that matches it (by
\* locus tag, protein id or gene name) and supplies a product; a feature
\* with no such annotation, or outside the subregion, keeps its product.
C8_LastSupplierWins ==
    pc = "analysed" => Retagged(ProductOfLastSupplier)

C8_Witness ==
    /\ pc = "analysed"
    /\ \E i \in 1..Len(record.cds) :
          /\ Cardinality(Suppliers(BeforeRetag[i])) = 2
          /\ Inside(record.cds[i].location)
          /\ record.cds[i].product = "p2"
          /\ data.annotations[1].product = "p1"

(* ===================== the reference resolver (SpecRef) ================ *)
\* a citation list has been resolved
Resolved == resolution.status # "none"

\* the PubMed identifiers of the citation list, the null identifier apart
WantedPmids ==
    {publications[i].value : i \in {j \in 1..Len(publications) :
        /\ publications[j].database = "pubmed"
        /\ publications[j].value # NullPmid}}

RequestsFor(db) ==
    {i \in 1..Len(resolution.requests) : resolution.requests[i].db = db}

FetchFailed == resolution.status = "FetchError"

\* the identifiers the resolution asked the service for
Requested == UNION {Range(resolution.requests[i].id) : i \in RequestsFor("pubmed")}

\* the requested identifiers the service gave no article for
Unanswered ==
    IF FetchFailed THEN Requested
    ELSE Requested \ Range(resolution.calls.articles)

\* C11: an identifier whose fetch failed, or that the answer of the service
\* left out, is no key of the cache afterwards; the cache holds the keys it
\* had and those of the articles answered, nothing else; the resolution ends
\* with an exception (the one of the fetch, or the KeyError of the get for
\* the first such identifier, the last get made) and gives no links; a get
\* for a key the cache does not have fails.
C11_NoPlaceholder ==
    Resolved =>
        /\ \A k \in Unanswered :
              /\ k \notin DOMAIN pubmed_cache
              /\ resolution.status \in {"FetchError", "KeyError"}
              /\ resolution.links = <<>>
        /\ (Unanswered # {} /\ ~FetchFailed) =>
              LET gets == resolution.calls.gets
              IN  /\ gets # <<>>
                  /\ gets[Len(gets)] \in Unanswered
                  /\ \A i \in 1..(Len(gets) - 1) : gets[i] \notin Unanswered
        /\ DOMAIN pubmed_cache
              = cache_before \cup (IF FetchFailed THEN {}
                                   ELSE Range(resolution.calls.articles))
        /\ \A k \in Pmids \ DOMAIN pubmed_cache :
              ~get(pubmed_cache, k).found

\* a resolution whose fetch of two identifiers was answered for the second
\* alone
C11_Witness ==
    /\ Resolved
    /\ Len(publications) = 2
    /\ Requested = {1, 2}
    /\ resolution.calls.articles = <<2>>
    /\ resolution.status = "KeyError"
    /\ resolution.calls.gets = <<1>>
    /\ DOMAIN pubmed_cache = {2}

\* the citation of the null PubMed identifier
NullCitation == [database |-> "pubmed", value |-> NullPmid]

\* the values of the citations of the list other than the null citation
CitedValues ==
    {publications[i].value :
        i \in {j \in 1..Len(publications) : publications[j] # NullCitation}}

\* C12: the null PubMed citation is skipped: the null identifier is in no
\* list given to get_missing, in no fetch and in no get, and no link is made
\* for it; the links of a resolution that went through are those of the
\* other citations of the list, one for each value.
C12_NullSkipped ==
    Resolved =>
        /\ \A i \in 1..Len(resolution.calls.wanted) :
              NullPmid \notin Range(resolution.calls.wanted[i])
        /\ \A i \in 1..Len(resolution.requests) :
              NullPmid \notin Range(resolution.requests[i].id)
        /\ NullPmid \notin Range(resolution.calls.gets)
        /\ NullPmid \notin Range(resolution.calls.articles)
        /\ \A i \in 1..Len(resolution.links) :
              /\ resolution.links[i].citation # NullCitation
              /\ resolution.links[i].citation.value # NullPmid
        /\ resolution.status = "ok" =>
              /\ {resolution.links[i].citation.value :
                      i \in 1..Len(resolution.links)} = CitedValues
              /\ Len(resolution.links) = Cardinality(CitedValues)

\* the null citation ahead of a citation that had to be fetched
C12_Witness ==
    /\ Resolved
    /\ publications = <<NullCitation, [database |-> "pubmed", value |-> 1]>>
    /\ resolution.status = "ok"
    /\ Len(resolution.requests) = 1
    /\ Len(resolution.links) = 1
    /\ resolution.links[1].citation.value = 1

(* ========================= the cache (SpecCache) ======================= *)
\* every entry of the cache before the step is still there and the same
EntriesKept ==
    \A k \in DOMAIN pubmed_cache :
        k \in DOMAIN pubmed_cache' /\ pubmed_cache'[k] = pubmed_cache[k]

\* every key has an entry of its own identifier, with at least one author
Complete(mappings) ==
    \A k \in DOMAIN mappings :
        /\ mappings[k].pmid = k
        /\ DOMAIN mappings[k] = {"title", "authors", "year", "journal", "pmid"}
        /\ mappings[k].authors # <<>>

\* C13 as stated: no operation takes a key away or replaces an entry.
C13_Original == [][pc = "cache" => EntriesKept]_vars

\* C13: no operation takes a key away; an entry is replaced by the add of an
\* entry for its own key and by nothing else (the resolver and the prefetch
\* add for keys that were missing); get, get_missing, save and the making
\* of another cache leave the cache as it is; every key has a complete
\* entry of its own identifier.
C13_CacheGrows ==
    [][pc = "cache" =>
        /\ DOMAIN pubmed_cache \subseteq DOMAIN pubmed_cache'
        /\ \A k \in DOMAIN pubmed_cache :
              pubmed_cache'[k] # pubmed_cache[k]
                  => op'.name = "add" /\ op'.arg = <<k>>
        /\ op'.name \in {"get", "get_missing", "save", "load"}
              => pubmed_cache' = pubmed_cache
        /\ op'.name \in {"resolve", "prefetch"}
              => DOMAIN pubmed_cache' = DOMAIN pubmed_cache \cup Range(op'.result)
        /\ Complete(pubmed_cache')]_vars

\* an entry has been replaced by an add, and the resolver has added another
C13_Witness ==
    /\ pc = "cache"
    /\ op.name = "resolve"
    /\ op.result = <<2>>
    /\ DOMAIN pubmed_cache = {1, 2}
    /\ 1 \in DOMAIN at_save
    /\ pubmed_cache[1] # at_save[1]

\* C14: get_missing returns the wanted identifiers that are no keys of the
\* cache, each once and in ascending order, and leaves the cache as it is;
\* it returns the empty list exactly when every wanted identifier is a key;
\* for the list of 1 and 2 on a cache that holds 1 alone it returns the list
\* of 2.
C14_GetMissing ==
    [][(pc = "cache" /\ op'.name = "get_missing") =>
        LET want == op'.arg
            result == op'.result
        IN  /\ Range(result) = Range(want) \ DOMAIN pubmed_cache
            /\ IsSorted(result)
            /\ Len(result) = Cardinality(Range(want) \ DOMAIN pubmed_cache)
            /\ (result = <<>>) <=> (Range(want) \subseteq DOMAIN pubmed_cache)
            /\ (want = <<1, 2>> /\ DOMAIN pubmed_cache = {1})
                  => result = <<2>>
            /\ pubmed_cache' = pubmed_cache
            /\ cache_file' = cache_file]_vars

\* get_missing of the list of 1 and 2 on a cache that holds 1 alone
C14_Witness ==
    /\ pc = "cache"
    /\ op.name = "get_missing"
    /\ op.arg = <<1, 2>>
    /\ DOMAIN pubmed_cache = {1}
    /\ op.result = <<2>>

\* the two entries have the same title, authors in the same order, year,
\* journal and identifier
SameFields(a, b) ==
    /\ a.title = b.title
    /\ Len(a.authors) = Len(b.authors)
    /\ \A i \in 1..Len(a.authors) : a.authors[i] = b.authors[i]
    /\ a.year = b.year
    /\ a.journal = b.journal
    /\ a.pmid = b.pmid

\* C15: a cache made of the cache file returns from get, for every key the
\* cache had when it was last saved, an entry with the same fields; it has
\* no other key: an entry added since the last save is not in it.
C15_SaveReload ==
    (pc = "cache" /\ op.name = "load") =>
        /\ reloaded.loaded
        /\ \A k \in DOMAIN at_save :
              /\ get(reloaded.mappings, k).found
              /\ SameFields(get(reloaded.mappings, k).entry, at_save[k])
        /\ \A k \in Pmids \ DOMAIN at_save :
              ~get(reloaded.mappings, k).found
        /\ DOMAIN reloaded.mappings = DOMAIN at_save

\* a cache saved with an entry for 1 whose title is not the one of the
\* service, given an entry for 2 afterwards, and read again
C15_Witness ==
    /\ pc = "cache"
    /\ op.name = "load"
    /\ cache_file.exists
    /\ DOMAIN at_save = {1}
    /\ at_save[1].title = 0
    /\ DOMAIN pubmed_cache = {1, 2}
    /\ DOMAIN reloaded.mappings = {1}
    /\ reloaded.mappings[1].title = 0

(* ======================= the prefetch (SpecPrefetch) =================== *)
RECURSIVE Embedded(_)
\* the PubMed identifiers of the strings of a JSON value
Embedded(node) ==
    IF node.kind = "str"
    THEN IF node.tag = "pubmed" THEN {node.value} ELSE {}
    ELSE UNION {Embedded(node.items[i]) : i \in 1..Len(node.items)}

\* the prefetch has saved the cache and ended
PrefetchDone == pc = "done"

\* C16: when the prefetch has ended, the saved cache has an entry for every
\* PubMed identifier of every document of the directory.
C16_EveryDocumentCovered ==
    PrefetchDone =>
        \A i \in 1..Len(files) :
            Embedded(files[i]) \subseteq DOMAIN cache_file.entries

\* what the prefetch does cover: the identifiers of the document that glob
\* gave last
LastDocumentCovered ==
    PrefetchDone =>
        /\ Range(pmids) = Embedded(files[Len(files)])
        /\ Embedded(files[Len(files)]) \subseteq DOMAIN cache_file.entries

\* C17: the cache is saved once, on leaving the loop, and the loop is left
\* for the save only when none of the wanted identifiers is missing; a round
\* whose answer lacks a missing identifier stays in the loop with that
\* identifier missing and nothing saved; when the service answers in the end
\* with everything it is asked for (or raises), the loop ends.
C17_LoopUntilNothingMissing ==
    /\ [](/\ saves = (IF pc = "done" THEN 1 ELSE 0)
          /\ pc = "done" => get_missing(pubmed_cache, pmids) = <<>>
          /\ pc = "done" => cache_file = save(pubmed_cache)
          /\ pc = "loop" => missing = get_missing(pubmed_cache, pmids))
    /\ [][/\ (pc = "loop" /\ pc' = "done")
                => (missing = <<>> /\ saves' = saves + 1)
          /\ (pc = "loop" /\ op'.name = "prefetch" /\ op'.ok)
                => \A k \in Range(missing) \ Range(op'.result) :
                      /\ pc' = "loop"
                      /\ k \in Range(missing')
                      /\ saves' = 0
                      /\ cache_file' = cache_file
          /\ pc # "loop" => cache_file' = cache_file]_vars
    /\ (pc = "loop") ~> (pc \in {"done", "crashed"})

\* the prefetch has ended after it had to fetch both identifiers
C17_Witness ==
    /\ pc = "done"
    /\ saves = 1
    /\ pmids = <<1, 2>>
    /\ cache_before = {}
    /\ DOMAIN cache_file.entries = {1, 2}

(* ========================== the page (SpecRender) ====================== *)
\* generate_html has run through the genes of the region
Rendered == pc \in {"rendered", "render_failed"}

\* the genes of the table that popped the annotation at place n
PoppedBy(n) == {g \in 1..Len(html.genes) : html.genes[g].annotation = n}

\* the CDS features of the region, in its order
RegionCds == cds_children(record.cds, last.result.area)

\* the annotation shares its id or its name with the CDS feature
Shares(c, a) ==
    \/ a.id \in {c.locus_tag, c.protein_id, c.gene}
    \/ a.name # None /\ a.name \in {c.locus_tag, c.protein_id, c.gene}

\* C18: after a merge that went through, generate_html pops every gene
\* annotation, each by one CDS of the region, the first in its order that
\* shares the id or the name of the annotation, and no CDS pops two; the
\* assertion at the end of the loop holds.
C18_EveryAnnotationPopped ==
    Rendered =>
        /\ html.status = "ok"
        /\ html.left = {}
        /\ \A n \in 1..Len(prev_data.annotations) :
              /\ Cardinality(PoppedBy(n)) = 1
              /\ \A g \in PoppedBy(n) :
                    /\ Shares(RegionCds[g], prev_data.annotations[n])
                    /\ \A h \in 1..(g - 1) :
                          ~Shares(RegionCds[h], prev_data.annotations[n])

\* the assertion fails though every CDS feature of the record is in the
\* region
AssertionFailsInsideRegion ==
    /\ pc = "render_failed"
    /\ Len(RegionCds) = Len(record.cds)
    /\ record.cds # <<>>
====
